---- MODULE Spec2Model ----
(***************************************************************************)
(* Model of com_android_server_HardwarePropertiesManagerService.cpp: the   *)
(* JNI gateway between HardwarePropertiesManagerService and the thermal    *)
(* HAL (IThermal).  The program state is the process-wide service handle   *)
(* gThermalModule and the cached CpuUsageInfo constructor; every native    *)
(* method is one action.  The thermal service is the environment: each     *)
(* remote call draws its reply (transport status, ThermalStatus code and   *)
(* list) from a bounded set.  A second specification, SpecMT, splits the   *)
(* native methods at their accesses to gThermalModule so that several      *)
(* threads interleave.                                                     *)
(***************************************************************************)
EXTENDS Integers, Sequences, FiniteSets, TLC

\* ---------------------------------------------------------------- bounds
MaxLen == 3
MaxSensor == 3
MaxDevice == 2
MaxCpu == 2
MaxType == 2
MaxSource == 4
NumServices == 2
MaxRun == 3
NumThreads == 2
MaxBinds == 3

\* ------------------------------------------------------------- constants
TEMPERATURE_CURRENT == 0
TEMPERATURE_THROTTLING == 1
TEMPERATURE_SHUTDOWN == 2
TEMPERATURE_THROTTLING_BELOW_VR_MIN == 3

\* nullptr, for sp<IThermal> and for jobject array slots
NULL == 0

\* ThermalStatusCode
SUCCESS == "SUCCESS"
FAILURE == "FAILURE"
ThermalStatusCode == {SUCCESS, FAILURE}

\* The proxies IThermal::getService may hand out
Services == 1..NumServices

\* ------------------------------------------------- values of the service
\* hidl_vec<T> of at most MaxLen elements
RECURSIVE SeqsUpTo(_, _)
SeqsUpTo(S, n) ==
    IF n = 0 THEN {<<>>}
    ELSE LET shorter == SeqsUpTo(S, n - 1)
         IN  shorter \cup {Append(s, x) : s \in {q \in shorter : Len(q) = n - 1}, x \in S}

\* CoolingDevice: the k-th fan of the device reports its own speed
CoolingDevice(k) == [name |-> k, currentValue |-> 10 * k + 5]
CoolingDevices == {CoolingDevice(k) : k \in 1..MaxDevice}

\* Temperature: sensor k carries four pairwise distinct readings, and the
\* sensors cycle through the types UNKNOWN (-1), CPU (0), GPU (1)
Temperature(k) ==
    [type                  |-> (k % 3) - 1,
     currentValue          |-> 10 * k + 1,
     throttlingThreshold   |-> 10 * k + 2,
     shutdownThreshold     |-> 10 * k + 3,
     vrThrottlingThreshold |-> 10 * k + 4]
Temperatures == {Temperature(k) : k \in 1..MaxSensor}

\* CpuUsage: core k, online or offline; active and total stay below 2^63
CpuUsage(k, online) ==
    [isOnline |-> online,
     active   |-> IF online THEN 100 * k ELSE 5 * k,
     total    |-> IF online THEN 200 * k ELSE 10 * k]
CpuUsages == {CpuUsage(k, on) : k \in 1..MaxCpu, on \in BOOLEAN}

\* What one remote call yields: the transport Status (isOk) and, when the
\* transaction went through, the ThermalStatus code and list handed to the
\* callback.  A failed transaction never invokes the callback.
Replies(Elems) ==
    [ok : {TRUE}, code : ThermalStatusCode, list : SeqsUpTo(Elems, MaxLen)]
        \cup {[ok |-> FALSE, code |-> FAILURE, list |-> <<>>]}

NoReply == [ok |-> FALSE, code |-> FAILURE, list |-> <<>>]
NoArgs == [type |-> 0, source |-> 0]

\* int type, int source as passed by the caller
TypeArgs == -1..MaxType
SourceArgs == -1..MaxSource

Threads == 1..NumThreads

VARIABLES
    gThermalModule,  \* sp<IThermal>: NULL or a proxy
    initMethod,      \* gCpuUsageInfoClassInfo.initMethod is resolved
    op,              \* the native method that ran last
    args,            \* its (type, source) arguments
    pre,             \* gThermalModule when it was entered
    reply,           \* the reply of the remote call it made
    issued,          \* the remote calls it issued, in order
    ret,             \* the array it returned
    thrown,          \* it left an exception pending for the caller
    run,             \* number of consecutive nativeInit calls just made
    runFirst,        \* gThermalModule after the first of them
    laterOk,         \* a lookup of a later one of them returned a proxy
    pc,              \* SpecMT: where each thread stands
    loc,             \* SpecMT: each thread's pending getService result
    binds,           \* SpecMT: assignments of a proxy to gThermalModule
    firstRef         \* SpecMT: the proxy the first of them assigned

vars == <<gThermalModule, initMethod, op, args, pre, reply, issued, ret,
          thrown, run, runFirst, laterOk, pc, loc, binds, firstRef>>

mtVars == <<pc, loc, binds, firstRef>>
initRunVars == <<run, runFirst, laterOk>>

\* ------------------------------------------------------- pure fragments
\* The callback of a remote call: list stays empty unless the transaction
\* went through and the service reported SUCCESS
CallbackList_IgnoreCode(r) == IF ~r.ok THEN <<>> ELSE r.list

CallbackList(r) ==
    IF ~r.ok THEN <<>>
    ELSE IF r.code = SUCCESS THEN r.list
    ELSE <<>>

HandleMissing_NoCheck(handle) == FALSE

\* The null check that opens nativeGetFanSpeeds / nativeGetDeviceTemperatures
HandleMissing(handle) == handle = NULL

\* The null check that opens nativeGetCpuUsages
CpuPrecondMissing(handle, method) == handle = NULL \/ ~method

\* for (i = 0; i < list.size(); ++i) values[i] = list[i].currentValue;
RECURSIVE FanLoop(_, _, _)
FanLoop(list, i, values) ==
    IF i > Len(list) THEN values
    ELSE FanLoop(list, i + 1, Append(values, list[i].currentValue))

\* A loop that starts one element late
FanValues_SkipFirst(list) == FanLoop(list, 2, <<>>)

FanValues(list) == FanLoop(list, 1, <<>>)

\* A switch whose SHUTDOWN and VR cases are exchanged
SelectTemperature_Swapped(t, source) ==
    CASE source = TEMPERATURE_CURRENT -> <<t.currentValue>>
      [] source = TEMPERATURE_THROTTLING -> <<t.throttlingThreshold>>
      [] source = TEMPERATURE_SHUTDOWN -> <<t.vrThrottlingThreshold>>
      [] source = TEMPERATURE_THROTTLING_BELOW_VR_MIN -> <<t.shutdownThreshold>>
      [] OTHER -> <<>>

\* A switch with a default case that falls back to the current value
SelectTemperature_Default(t, source) ==
    CASE source = TEMPERATURE_THROTTLING -> <<t.throttlingThreshold>>
      [] source = TEMPERATURE_SHUTDOWN -> <<t.shutdownThreshold>>
      [] source = TEMPERATURE_THROTTLING_BELOW_VR_MIN -> <<t.vrThrottlingThreshold>>
      [] OTHER -> <<t.currentValue>>

\* switch (source): the values written at values[length++] for one reading
SelectTemperature(t, source) ==
    CASE source = TEMPERATURE_CURRENT -> <<t.currentValue>>
      [] source = TEMPERATURE_THROTTLING -> <<t.throttlingThreshold>>
      [] source = TEMPERATURE_SHUTDOWN -> <<t.shutdownThreshold>>
      [] source = TEMPERATURE_THROTTLING_BELOW_VR_MIN -> <<t.vrThrottlingThreshold>>
      [] OTHER -> <<>>

\* if (static_cast<int>(list[i].type) == type)
TypeMatches(t, type) == t.type = type

RECURSIVE TempLoop(_, _, _, _, _)
TempLoop(list, type, source, i, values) ==
    IF i > Len(list) THEN values
    ELSE TempLoop(list, type, source, i + 1,
                  IF TypeMatches(list[i], type)
                  THEN values \o SelectTemperature(list[i], source)
                  ELSE values)

TempValues(list, type, source) == TempLoop(list, type, source, 1, <<>>)

\* A jobject slot holding nullptr
NullObject == [class |-> "null"]

\* NewObject(clazz, initMethod, active, total)
NewCpuUsageInfo(c) ==
    [class |-> "CpuUsageInfo", active |-> c.active, total |-> c.total]

\* NewObjectArray(list.size(), clazz, nullptr)
NewObjectArray(n) == [i \in 1..n |-> NullObject]

\* A loop that forgets the isOnline test
RECURSIVE CpuLoop_NoOnlineTest(_, _, _)
CpuLoop_NoOnlineTest(list, i, arr) ==
    IF i > Len(list) THEN arr
    ELSE CpuLoop_NoOnlineTest(list, i + 1,
                              [arr EXCEPT ![i] = NewCpuUsageInfo(list[i])])

\* for (i = 0; i < list.size(); ++i) if (list[i].isOnline) SetObjectArrayElement(i)
RECURSIVE CpuLoop(_, _, _)
CpuLoop(list, i, arr) ==
    IF i > Len(list) THEN arr
    ELSE CpuLoop(list, i + 1,
                 IF list[i].isOnline
                 THEN [arr EXCEPT ![i] = NewCpuUsageInfo(list[i])]
                 ELSE arr)

CpuObjects(list) == CpuLoop(list, 1, NewObjectArray(Len(list)))

\* The remote call made ahead of the null check
QueryCalls_BeforeCheck(missing, name) == <<name>>

\* The remote calls one invocation of a query issues
QueryCalls(missing, name) == IF missing THEN <<>> ELSE <<name>>

LookupNeeded_Always(handle) == TRUE

\* nativeInit looks the service up only while no handle is cached
LookupNeeded(handle) == handle = NULL

\* The lookup result never reaches the global
AssignHandle_Dropped(handle, svc) == handle

\* gThermalModule = IThermal::getService("thermal")
AssignHandle(handle, svc) == svc

\* Bookkeeping of runs of consecutive nativeInit calls
InitRun(looked, svc, after) ==
    /\ run' = IF run < MaxRun THEN run + 1 ELSE run
    /\ runFirst' = IF run = 0 THEN after ELSE runFirst
    /\ laterOk' = IF run = 0 THEN FALSE ELSE (laterOk \/ (looked /\ svc # NULL))

QueryRun ==
    /\ run' = 0
    /\ runFirst' = NULL
    /\ laterOk' = FALSE

\* ---------------------------------------------------------------- Init
\* register_android_server_HardwarePropertiesManagerService: the handle is
\* reset and the CpuUsageInfo constructor is resolved (or the process dies)
Init ==
    /\ gThermalModule = NULL
    /\ initMethod = TRUE
    /\ op = "idle"
    /\ args = NoArgs
    /\ pre = NULL
    /\ reply = NoReply
    /\ issued = <<>>
    /\ ret = <<>>
    /\ thrown = FALSE
    /\ run = 0
    /\ runFirst = NULL
    /\ laterOk = FALSE
    /\ pc = [t \in Threads |-> "idle"]
    /\ loc = [t \in Threads |-> NULL]
    /\ binds = 0
    /\ firstRef = NULL

\* ------------------------------------------- actions, one caller at a time
\* The managed caller invokes one native method, which runs to its return;
\* op names the method whose result the caller holds, "idle" between calls.
nativeInit ==
    /\ op = "idle"
    /\ \E svc \in Services \cup {NULL} :
        LET looked == LookupNeeded(gThermalModule)
            after  == IF looked THEN AssignHandle(gThermalModule, svc)
                      ELSE gThermalModule
        IN  /\ (~looked) => svc = NULL
            /\ gThermalModule' = after
            /\ op' = "nativeInit"
            /\ args' = NoArgs
            /\ pre' = gThermalModule
            /\ reply' = NoReply
            /\ issued' = IF looked THEN <<"getService">> ELSE <<>>
            /\ ret' = <<>>
            /\ thrown' = FALSE
            /\ InitRun(looked, svc, after)
            /\ UNCHANGED <<initMethod, mtVars>>

nativeGetFanSpeeds ==
    /\ op = "idle"
    /\ \E r \in Replies(CoolingDevices) :
        LET missing == HandleMissing(gThermalModule)
        IN  /\ missing => r = NoReply
            /\ op' = "nativeGetFanSpeeds"
            /\ args' = NoArgs
            /\ pre' = gThermalModule
            /\ reply' = r
            /\ issued' = QueryCalls(missing, "getCoolingDevices")
            /\ ret' = IF missing THEN <<>> ELSE FanValues(CallbackList(r))
            /\ thrown' = FALSE
            /\ QueryRun
            /\ UNCHANGED <<gThermalModule, initMethod, mtVars>>

nativeGetDeviceTemperatures ==
    /\ op = "idle"
    /\ \E type \in TypeArgs, source \in SourceArgs, r \in Replies(Temperatures) :
        LET missing == HandleMissing(gThermalModule)
        IN  /\ missing => r = NoReply
            /\ op' = "nativeGetDeviceTemperatures"
            /\ args' = [type |-> type, source |-> source]
            /\ pre' = gThermalModule
            /\ reply' = r
            /\ issued' = QueryCalls(missing, "getTemperatures")
            /\ ret' = IF missing THEN <<>>
                      ELSE TempValues(CallbackList(r), type, source)
            /\ thrown' = FALSE
            /\ QueryRun
            /\ UNCHANGED <<gThermalModule, initMethod, mtVars>>

nativeGetCpuUsages ==
    /\ op = "idle"
    /\ \E r \in Replies(CpuUsages) :
        LET missing == CpuPrecondMissing(gThermalModule, initMethod)
        IN  /\ missing => r = NoReply
            /\ op' = "nativeGetCpuUsages"
            /\ args' = NoArgs
            /\ pre' = gThermalModule
            /\ reply' = r
            /\ issued' = QueryCalls(missing, "getCpuUsages")
            /\ ret' = IF missing THEN <<>> ELSE CpuObjects(CallbackList(r))
            /\ thrown' = FALSE
            /\ QueryRun
            /\ UNCHANGED <<gThermalModule, initMethod, mtVars>>

\* The native frame is popped: the caller takes the array, the locals (list,
\* values, status) are gone, and only gThermalModule outlives the call
ReturnToCaller ==
    /\ op # "idle"
    /\ op' = "idle"
    /\ args' = NoArgs
    /\ pre' = NULL
    /\ reply' = NoReply
    /\ issued' = <<>>
    /\ ret' = <<>>
    /\ thrown' = FALSE
    /\ UNCHANGED <<gThermalModule, initMethod, initRunVars, mtVars>>

Next ==
    \/ nativeInit
    \/ nativeGetFanSpeeds
    \/ nativeGetDeviceTemperatures
    \/ nativeGetCpuUsages
    \/ ReturnToCaller

Spec == Init /\ [][Next]_vars

\* ---------------------------------------- actions, several callers at once
\* Each thread runs one native method at a time and a step is one access to
\* gThermalModule (a pointer-sized load or store) or one blocking remote
\* call; no lock is taken anywhere.  The arrays built from a reply live in
\* the thread's own frame, so SpecMT tracks only the handle, where each
\* thread stands and the proxy a thread is calling through.  A crash ends
\* the process, so no thread steps after one.
Running == \A t \in Threads : pc[t] # "crashed"

seqVars == <<initMethod, op, args, pre, reply, issued, ret, thrown, initRunVars>>

\* nativeInit, line 63: if (gThermalModule == nullptr)
MTInitCheck(t) ==
    /\ Running
    /\ pc[t] = "idle"
    /\ pc' = [pc EXCEPT ![t] = IF LookupNeeded(gThermalModule)
                               THEN "lookup" ELSE "recheck"]
    /\ UNCHANGED <<gThermalModule, loc, binds, firstRef, seqVars>>

\* nativeInit, line 64, right-hand side: IThermal::getService("thermal")
MTInitLookup(t) ==
    /\ Running
    /\ pc[t] = "lookup"
    /\ \E svc \in Services \cup {NULL} : loc' = [loc EXCEPT ![t] = svc]
    /\ pc' = [pc EXCEPT ![t] = "assign"]
    /\ UNCHANGED <<gThermalModule, binds, firstRef, seqVars>>

\* nativeInit, line 64, the store to gThermalModule
MTInitAssign(t) ==
    /\ Running
    /\ pc[t] = "assign"
    /\ gThermalModule' = AssignHandle(gThermalModule, loc[t])
    /\ binds' = IF loc[t] # NULL /\ binds < MaxBinds THEN binds + 1 ELSE binds
    /\ firstRef' = IF firstRef = NULL THEN loc[t] ELSE firstRef
    /\ loc' = [loc EXCEPT ![t] = NULL]
    /\ pc' = [pc EXCEPT ![t] = "recheck"]
    /\ UNCHANGED seqVars

\* nativeInit, lines 67-70: the second null check, the log line, the return
MTInitRecheck(t) ==
    /\ Running
    /\ pc[t] = "recheck"
    /\ pc' = [pc EXCEPT ![t] = "idle"]
    /\ UNCHANGED <<gThermalModule, loc, binds, firstRef, seqVars>>

\* The null check that opens a query: an empty array, or on to the call
MTQueryCheck(t) ==
    /\ Running
    /\ pc[t] = "idle"
    /\ \E q \in {"nativeGetFanSpeeds", "nativeGetDeviceTemperatures",
                 "nativeGetCpuUsages"} :
          LET missing == IF q = "nativeGetCpuUsages"
                         THEN CpuPrecondMissing(gThermalModule, initMethod)
                         ELSE HandleMissing(gThermalModule)
          IN  pc' = [pc EXCEPT ![t] = IF missing THEN "ret_empty" ELSE q]
    /\ UNCHANGED <<gThermalModule, loc, binds, firstRef, seqVars>>

\* gThermalModule->get...(): the handle is loaded again to dispatch the call;
\* a null handle here is a null dereference
MTQueryCall(t) ==
    /\ Running
    /\ pc[t] \in {"nativeGetFanSpeeds", "nativeGetDeviceTemperatures",
                  "nativeGetCpuUsages"}
    /\ IF gThermalModule = NULL
       THEN /\ pc' = [pc EXCEPT ![t] = "crashed"]
            /\ loc' = loc
       ELSE /\ pc' = [pc EXCEPT ![t] = "incall"]
            /\ loc' = [loc EXCEPT ![t] = gThermalModule]
    /\ UNCHANGED <<gThermalModule, binds, firstRef, seqVars>>

\* The blocking call comes back and the array is built.  When the handle was
\* overwritten meanwhile the proxy the call runs on has lost its only strong
\* reference: the call may still complete, or the process dies.
MTQueryReply(t) ==
    /\ Running
    /\ pc[t] = "incall"
    /\ \E outcome \in {"ret_array", "crashed"} :
          /\ (gThermalModule = loc[t]) => outcome = "ret_array"
          /\ pc' = [pc EXCEPT ![t] = outcome]
    /\ loc' = [loc EXCEPT ![t] = NULL]
    /\ UNCHANGED <<gThermalModule, binds, firstRef, seqVars>>

\* return of a query
MTReturn(t) ==
    /\ Running
    /\ pc[t] \in {"ret_empty", "ret_array"}
    /\ pc' = [pc EXCEPT ![t] = "idle"]
    /\ UNCHANGED <<gThermalModule, loc, binds, firstRef, seqVars>>

NextMT ==
    \E t \in Threads :
        \/ MTInitCheck(t)
        \/ MTInitLookup(t)
        \/ MTInitAssign(t)
        \/ MTInitRecheck(t)
        \/ MTQueryCheck(t)
        \/ MTQueryCall(t)
        \/ MTQueryReply(t)
        \/ MTReturn(t)

SpecMT == Init /\ [][NextMT]_vars

\* ------------------------------------------------------------ the claims
Queries == {"nativeGetFanSpeeds", "nativeGetDeviceTemperatures", "nativeGetCpuUsages"}

Succeeded == pre # NULL /\ reply.ok /\ reply.code = SUCCESS

\* C1: with the handle unbound, each query returns an empty sequence, raises
\* nothing and leaves the handle unbound.
C1_UnboundQueriesEmpty ==
    (op \in Queries /\ pre = NULL) =>
        /\ ret = <<>>
        /\ ~thrown
        /\ gThermalModule = NULL

C1_Witness ==
    /\ op = "nativeGetDeviceTemperatures"
    /\ pre = NULL
    /\ args.source = TEMPERATURE_THROTTLING

\* C2: with the handle bound, a reply whose status code is not SUCCESS makes
\* the query return an empty sequence, whatever list came with it, and
\* raise nothing.
C2_FailedCallEmpty ==
    (op \in Queries /\ pre # NULL /\ reply.ok /\ reply.code # SUCCESS) =>
        /\ ret = <<>>
        /\ ~thrown

C2_Witness ==
    /\ op = "nativeGetFanSpeeds"
    /\ pre # NULL
    /\ reply.ok
    /\ reply.code = FAILURE
    /\ Len(reply.list) = 2

\* C3: on success nativeGetFanSpeeds returns as many values as the service
\* returned devices, the i-th being the i-th device's current value.
C3_FanSpeedsInOrder ==
    (op = "nativeGetFanSpeeds" /\ Succeeded) =>
        /\ Len(ret) = Len(reply.list)
        /\ \A i \in 1..Len(reply.list) : ret[i] = reply.list[i].currentValue

C3_Witness ==
    /\ op = "nativeGetFanSpeeds"
    /\ Succeeded
    /\ Len(reply.list) >= 2
    /\ reply.list[1] # reply.list[2]

\* The field a source code stands for, as the interface table gives it
FieldOfSource(t, source) ==
    IF source = 0 THEN t.currentValue
    ELSE IF source = 1 THEN t.throttlingThreshold
    ELSE IF source = 2 THEN t.shutdownThreshold
    ELSE t.vrThrottlingThreshold

OfType(list, type) == SelectSeq(list, LAMBDA t : t.type = type)

\* C4: on success, for a source in 0..3, nativeGetDeviceTemperatures returns
\* exactly the readings of the requested type, in order, each mapped to the
\* one field its source code stands for.
C4_TemperaturesFiltered ==
    (op = "nativeGetDeviceTemperatures" /\ Succeeded /\ args.source \in 0..3) =>
        LET sub == OfType(reply.list, args.type)
        IN  /\ Len(ret) = Len(sub)
            /\ \A i \in 1..Len(sub) : ret[i] = FieldOfSource(sub[i], args.source)

C4_Witness ==
    /\ op = "nativeGetDeviceTemperatures"
    /\ Succeeded
    /\ args.source = TEMPERATURE_SHUTDOWN
    /\ Len(ret) = 2
    /\ Len(reply.list) = 3

OnlineIndexes(list) == {i \in 1..Len(list) : list[i].isOnline}

\* C5 as stated: on success nativeGetCpuUsages returns one object per online
\* entry and nothing else, so the result is as long as the number of online
\* entries.
C5_OneEntryPerOnlineCore ==
    (op = "nativeGetCpuUsages" /\ Succeeded) =>
        /\ Len(ret) = Cardinality(OnlineIndexes(reply.list))
        /\ \A i \in 1..Len(ret) : ret[i] # NullObject

\* C5 as amended: on success nativeGetCpuUsages returns an array as long as
\* the service's list; slot i holds an object carrying entry i's (active,
\* total) pair when entry i is online and stays null when it is offline, so
\* there is one object per online entry and none carries an offline entry's
\* values.
C5_OnlineSlotsFilled ==
    (op = "nativeGetCpuUsages" /\ Succeeded) =>
        /\ Len(ret) = Len(reply.list)
        /\ \A i \in 1..Len(reply.list) :
              IF reply.list[i].isOnline
              THEN ret[i] = [class |-> "CpuUsageInfo",
                             active |-> reply.list[i].active,
                             total |-> reply.list[i].total]
              ELSE ret[i] = NullObject
        /\ Cardinality({i \in 1..Len(ret) : ret[i] # NullObject})
              = Cardinality(OnlineIndexes(reply.list))

C5_Witness ==
    /\ op = "nativeGetCpuUsages"
    /\ Succeeded
    /\ reply.list = <<CpuUsage(1, TRUE), CpuUsage(1, FALSE)>>
    /\ Len(ret) = 2

\* C10: on success a source outside 0..3 yields an empty sequence for every
\* list and type, also when readings of the requested type exist, and
\* raises nothing.
C10_UnknownSourceEmpty ==
    (op = "nativeGetDeviceTemperatures" /\ Succeeded /\ args.source \notin 0..3) =>
        /\ ret = <<>>
        /\ ~thrown

C10_Witness ==
    /\ op = "nativeGetDeviceTemperatures"
    /\ Succeeded
    /\ args.source \notin 0..3
    /\ OfType(reply.list, args.type) # <<>>

\* C6 as stated: after N >= 1 consecutive nativeInit calls the handle is
\* bound exactly when it was bound after the first of them, whatever each
\* lookup returned.
C6_RunEqualsFirstCall ==
    run >= 1 => ((gThermalModule # NULL) <=> (runFirst # NULL))

\* C6 as amended: after N >= 1 consecutive nativeInit calls the handle is
\* bound exactly when the first call left it bound or a lookup of a later
\* call returned a service; a handle the first call left bound is still the
\* same reference.  So the N calls end as the single call does unless the
\* first lookup fails and a later one succeeds.
C6_RunBoundIffSomeLookupSucceeded ==
    run >= 1 =>
        /\ (gThermalModule # NULL) <=> (runFirst # NULL \/ laterOk)
        /\ runFirst # NULL => gThermalModule = runFirst /\ ~laterOk

C6_Witness ==
    /\ run >= 2
    /\ runFirst = NULL
    /\ laterOk
    /\ op = "nativeInit"

\* C7: a bound handle never changes: no step writes it once it holds a
\* service, nativeInit on a bound handle looks nothing up, and every native
\* method returns with the handle it found bound at entry.
C7_BoundNeverReverts ==
    /\ [][gThermalModule # NULL => gThermalModule' = gThermalModule]_vars
    /\ []((op # "idle" /\ pre # NULL) => gThermalModule = pre)
    /\ []((op = "nativeInit" /\ pre # NULL) => issued = <<>>)

C7_Witness ==
    /\ op = "nativeInit"
    /\ pre # NULL
    /\ run >= 2

RemoteCallOf(method) ==
    IF method = "nativeInit" THEN "getService"
    ELSE IF method = "nativeGetFanSpeeds" THEN "getCoolingDevices"
    ELSE IF method = "nativeGetDeviceTemperatures" THEN "getTemperatures"
    ELSE "getCpuUsages"

\* C9 as stated: every invocation of each native method issues exactly one
\* remote call.
C9_ExactlyOneCall ==
    op # "idle" => Len(issued) = 1

\* C9 as amended: every invocation issues at most one remote call and never
\* repeats it: a query issues its one call exactly when it finds the handle
\* bound, nativeInit issues its one lookup exactly when it finds the handle
\* unbound, and otherwise the invocation issues none.
C9_AtMostOneCall ==
    op # "idle" =>
        /\ Len(issued) <= 1
        /\ (Len(issued) = 1) <=> ((op = "nativeInit") <=> (pre = NULL))
        /\ \A i \in 1..Len(issued) : issued[i] = RemoteCallOf(op)

C9_Witness ==
    /\ op = "nativeGetCpuUsages"
    /\ pre # NULL
    /\ reply.ok
    /\ reply.code = FAILURE
    /\ issued = <<"getCpuUsages">>

\* C8: with threads calling nativeInit and the queries concurrently and no
\* lock, a service is assigned to the handle at most once, and from then on
\* the handle holds that same reference at every read.
C8_WriteOnce ==
    /\ binds <= 1
    /\ firstRef # NULL => gThermalModule = firstRef

====
